---- MODULE Spec2Model ----
(***************************************************************************)
(* Model of the generic hash maps of mieciu/golang-generics.               *)
(*                                                                         *)
(* hashmap2/simple_hashmap.go: separate chaining, each bucket is a singly  *)
(* linked list of KVPair nodes; set() counts the nodes it visits in        *)
(* listLen and calls rehash() when the count reaches rehashThreshold.      *)
(*                                                                         *)
(* A chain is modelled as the sequence of its nodes from the bucket head   *)
(* along the Next links, a node as the record [Key, Value].  A key is an   *)
(* identifier 1..NumKeys; Digest(key) stands for the int64 that hash()     *)
(* obtains from the gob encoding and the SHA-256 digest of the key.        *)
(***************************************************************************)
EXTENDS Integers, Sequences, FiniteSets, TLC

\* ---------------------------------------------------------------- bounds
NumKeys == 4          \* keys 1..NumKeys are offered to set/get/remove
MaxValue == 2         \* values 1..MaxValue
MaxDigest == 12       \* SpecHash: digests -MaxDigest..MaxDigest
MaxCap == 9           \* SpecHash: capacities 1..MaxCap
MaxCapacity == 64     \* hashmap2: rehash() does not double capacity beyond it

\* ------------------------------------------------------ program constants
defaultCapacity == 4
defaultRehashThreshold == 2
Nil == 0              \* the nil *V that get returns for an absent key
ZeroKey == 0          \* the zero value of K that make([]K, n) fills in

Keys == 1..NumKeys
Values == 1..MaxValue

\* The int64 taken from the SHA-256 digest of each key (hash(), the value
\* of hashAsInteger).  The table mixes signs and residues so that keys
\* collide under capacity 4, 8 and 16.
KeyDigest == <<1, -1, 9, 3, -7, 17, 5, -9, 11, 13>>

Digest(key) == IF key = ZeroKey THEN 6 ELSE KeyDigest[key]

\* Go's % on signed integers: truncated division, the sign of the dividend.
Rem(h, c) == IF h >= 0 THEN h % c ELSE -((-h) % c)

\* Faulty hash(): the negative remainder is returned as it is.
hashIndexNoNegate(h, c) == Rem(h, c)

\* hash(), from hashAsInteger on: reduce modulo capacity, negate if negative.
hashIndex(h, c) ==
    LET hashAfterModulo == Rem(h, c)
    IN  IF hashAfterModulo < 0 THEN -hashAfterModulo ELSE hashAfterModulo

hash(m, key) == hashIndex(Digest(key), m.capacity)

\* make([]*KVPair[K, V], n): n nil bucket heads.
makeBuckets(n) == [i \in 0..(n - 1) |-> <<>>]

\* Faulty MakeHashMap(): the rehash threshold is one node.
MakeHashMapThresholdOne ==
    [capacity        |-> defaultCapacity,
     buckets         |-> makeBuckets(defaultCapacity),
     listLen         |-> 0,
     rehashThreshold |-> defaultRehashThreshold - 1]

MakeHashMap ==
    [capacity        |-> defaultCapacity,
     buckets         |-> makeBuckets(defaultCapacity),
     listLen         |-> 0,
     rehashThreshold |-> defaultRehashThreshold]

\* ------------------------------------------------------------------- get
RECURSIVE getWalk(_, _, _)
getWalk(chain, i, key) ==
    IF i > Len(chain) THEN Nil
    ELSE IF chain[i].Key = key THEN chain[i].Value
    ELSE getWalk(chain, i + 1, key)

get(m, key) == getWalk(m.buckets[hash(m, key)], 1, key)

resetListLen(m) == [m EXCEPT !.listLen = 0]

\* ---------------------------------------------------------- set / rehash
\* rehash(), first loop: every node of every chain, bucket by bucket.
RECURSIVE collect(_, _, _)
collect(bkts, b, n) ==
    IF b >= n THEN <<>> ELSE bkts[b] \o collect(bkts, b + 1, n)

allElementsOf(m) == collect(m.buckets, 0, Cardinality(DOMAIN m.buckets))

\* rehash(), second loop: make([]K, len(allElements)) gives len zero keys,
\* and the keys of the entries are appended after them.
keyspaceOf(allElements) ==
    [i \in 1..Len(allElements) |-> ZeroKey]
        \o [i \in 1..Len(allElements) |-> allElements[i].Key]

noCollidingHashes(m, keyspace) ==
    LET allHashes == [i \in 1..Len(keyspace) |-> hash(m, keyspace[i])]
    IN  Len(allHashes) < Len(keyspace)

\* Faulty doubling loop: capacity grows by the default capacity.
growCapacityAdds(m, keyspace) ==
    [m EXCEPT !.capacity = m.capacity + defaultCapacity]

\* for ok := true; ok; ok = m.noCollidingHashes(keyspace) { capacity *= 2 }
RECURSIVE growCapacity(_, _)
growCapacity(m, keyspace) ==
    LET m1 == [m EXCEPT !.capacity = m.capacity * 2]
    IN  IF noCollidingHashes(m1, keyspace) THEN growCapacity(m1, keyspace)
        ELSE m1

\* What is observed of the calls made inside one public set(); the object
\* carries it in the field obs while set() runs.
\*   rehashes  rehash() calls so far
\*   depth     rehash() calls that have not returned yet
\*   maxDepth  largest depth so far
\*   collide   a rehash() left its doubling loop with two keys of its
\*             snapshot sharing an index under the capacity it chose
\*   long      a rehash() returned with a chain of more than one node
\*   entryLen  largest listLen found on entry of a set() invocation
\*   early     a rehash() was triggered at a node that had a successor
\*   overflow  a rehash() was called that had to double capacity beyond
\*             MaxCapacity
NoObs ==
    [rehashes |-> 0, depth |-> 0, maxDepth |-> 0, collide |-> FALSE,
     long |-> FALSE, entryLen |-> 0, early |-> FALSE, overflow |-> FALSE]

Max(a, b) == IF a >= b THEN a ELSE b

\* Two entries of the snapshot hash to the same index under m.capacity.
snapshotCollides(m, allElements) ==
    \E i, j \in 1..Len(allElements) :
        i < j /\ hash(m, allElements[i].Key) = hash(m, allElements[j].Key)

enterSet(m) == [m EXCEPT !.obs.entryLen = Max(@, m.listLen)]

enterRehash(m) ==
    [m EXCEPT !.obs.rehashes = @ + 1,
              !.obs.depth = @ + 1,
              !.obs.maxDepth = Max(@, m.obs.depth + 1)]

capacityChosen(m, allElements) ==
    [m EXCEPT !.obs.collide = @ \/ snapshotCollides(m, allElements)]

leaveRehash(m) ==
    [m EXCEPT !.obs.depth = @ - 1,
              !.obs.long = @ \/ \E b \in DOMAIN m.buckets :
                                     Len(m.buckets[b]) > 1]

earlyTrigger(m) == [m EXCEPT !.obs.early = TRUE]

capacityExhausted(m) == [m EXCEPT !.obs.overflow = TRUE]

RECURSIVE set(_, _, _)
RECURSIVE setLoop(_, _, _, _, _, _, _)
RECURSIVE rehash(_)
RECURSIVE reinsert(_, _, _)

\* Faulty reinsertion: the loop stops one entry early.
reinsertDropsLast(m, allElements, i) ==
    IF i >= Len(allElements) THEN m
    ELSE reinsert(set(m, allElements[i].Key, allElements[i].Value),
                  allElements, i + 1)

\* rehash(), last loop: m.set(entry.Key, entry.Value) for each entry.
reinsert(m, allElements, i) ==
    IF i > Len(allElements) THEN m
    ELSE reinsert(set(m, allElements[i].Key, allElements[i].Value),
                  allElements, i + 1)

\* Faulty rehash(): the chains are copied to the bucket index they had,
\* without being hashed against the new capacity.
rehashKeepsIndex(m) ==
    LET allElements == allElementsOf(m)
        keyspace    == keyspaceOf(allElements)
        grown       == growCapacity(m, keyspace)
    IN  [grown EXCEPT !.buckets =
            [i \in 0..(grown.capacity - 1) |->
                IF i \in DOMAIN m.buckets THEN m.buckets[i] ELSE <<>>]]

\* The doubling of a 64-bit capacity is not modelled beyond MaxCapacity: a
\* rehash() that would exceed it is recorded in obs.overflow and left out.
rehash(m) ==
    LET allElements == allElementsOf(m)
        keyspace    == keyspaceOf(allElements)
        grown       == capacityChosen(growCapacity(enterRehash(m), keyspace),
                                      allElements)
        fresh       == [grown EXCEPT !.buckets = makeBuckets(grown.capacity)]
    IN  IF m.capacity * 2 > MaxCapacity THEN capacityExhausted(m)
        ELSE leaveRehash(reinsert(fresh, allElements, 1))

\* Faulty loop of set(): a matching node keeps its old value.
setLoopNoUpdate(m, key, value, hashedKey, chain, i, attached) ==
    LET counted == [m EXCEPT !.listLen = m.listLen + 1]
    IN  IF chain[i].Key = key
        THEN counted
        ELSE LET isTail   == i = Len(chain)
                 chain2   == IF isTail
                             THEN Append(chain, [Key |-> key, Value |-> value])
                             ELSE chain
                 linked   == IF isTail /\ attached
                             THEN [counted EXCEPT !.buckets[hashedKey] = chain2]
                             ELSE counted
                 trigger  == linked.listLen >= linked.rehashThreshold
                 after    == IF trigger THEN rehash(linked) ELSE linked
             IN  IF i + 1 > Len(chain2) THEN after
                 ELSE setLoop(after, key, value, hashedKey, chain2, i + 1,
                              attached /\ ~trigger)

\* Faulty loop of set(): the node is matched on its value, not on its key.
setLoopComparesValue(m, key, value, hashedKey, chain, i, attached) ==
    LET counted == [m EXCEPT !.listLen = m.listLen + 1]
    IN  IF chain[i].Value = value
        THEN counted
        ELSE LET isTail   == i = Len(chain)
                 chain2   == IF isTail
                             THEN Append(chain, [Key |-> key, Value |-> value])
                             ELSE chain
                 linked   == IF isTail /\ attached
                             THEN [counted EXCEPT !.buckets[hashedKey] = chain2]
                             ELSE counted
                 trigger  == linked.listLen >= linked.rehashThreshold
                 after    == IF trigger THEN rehash(linked) ELSE linked
             IN  IF i + 1 > Len(chain2) THEN after
                 ELSE setLoop(after, key, value, hashedKey, chain2, i + 1,
                              attached /\ ~trigger)

\* Faulty loop of set(): a matching node is unlinked and linked again as
\* the last node of the chain with the new value.
setLoopMovesToTail(m, key, value, hashedKey, chain, i, attached) ==
    LET counted == [m EXCEPT !.listLen = m.listLen + 1]
    IN  IF chain[i].Key = key
        THEN IF attached
             THEN [counted EXCEPT !.buckets[hashedKey] =
                      SubSeq(chain, 1, i - 1) \o SubSeq(chain, i + 1, Len(chain))
                          \o <<[Key |-> key, Value |-> value]>>]
             ELSE counted
        ELSE LET isTail   == i = Len(chain)
                 chain2   == IF isTail
                             THEN Append(chain, [Key |-> key, Value |-> value])
                             ELSE chain
                 linked   == IF isTail /\ attached
                             THEN [counted EXCEPT !.buckets[hashedKey] = chain2]
                             ELSE counted
                 trigger  == linked.listLen >= linked.rehashThreshold
                 after    == IF trigger
                             THEN rehash(IF isTail THEN linked
                                         ELSE earlyTrigger(linked))
                             ELSE linked
             IN  IF i + 1 > Len(chain2) THEN after
                 ELSE setLoop(after, key, value, hashedKey, chain2, i + 1,
                              attached /\ ~trigger)

\* Faulty loop of set(): rehash() is called when the count exceeds the
\* threshold, not when it reaches it.
setLoopStrictThreshold(m, key, value, hashedKey, chain, i, attached) ==
    LET counted == [m EXCEPT !.listLen = m.listLen + 1]
    IN  IF chain[i].Key = key
        THEN IF attached
             THEN [counted EXCEPT !.buckets[hashedKey][i].Value = value]
             ELSE counted
        ELSE LET isTail   == i = Len(chain)
                 chain2   == IF isTail
                             THEN Append(chain, [Key |-> key, Value |-> value])
                             ELSE chain
                 linked   == IF isTail /\ attached
                             THEN [counted EXCEPT !.buckets[hashedKey] = chain2]
                             ELSE counted
                 trigger  == linked.listLen > linked.rehashThreshold
                 after    == IF trigger
                             THEN rehash(IF isTail THEN linked
                                         ELSE earlyTrigger(linked))
                             ELSE linked
             IN  IF i + 1 > Len(chain2) THEN after
                 ELSE setLoop(after, key, value, hashedKey, chain2, i + 1,
                              attached /\ ~trigger)

\* Faulty loop of set(): the threshold is tested before the key of the
\* node, so that a matching node can trigger rehash().
setLoopChecksThresholdFirst(m, key, value, hashedKey, chain, i, attached) ==
    LET counted == [m EXCEPT !.listLen = m.listLen + 1]
    IN  IF chain[i].Key = key
        THEN IF counted.listLen >= counted.rehashThreshold
             THEN rehash(counted)
             ELSE IF attached
                  THEN [counted EXCEPT !.buckets[hashedKey][i].Value = value]
                  ELSE counted
        ELSE LET isTail   == i = Len(chain)
                 chain2   == IF isTail
                             THEN Append(chain, [Key |-> key, Value |-> value])
                             ELSE chain
                 linked   == IF isTail /\ attached
                             THEN [counted EXCEPT !.buckets[hashedKey] = chain2]
                             ELSE counted
                 trigger  == linked.listLen >= linked.rehashThreshold
                 after    == IF trigger
                             THEN rehash(IF isTail THEN linked
                                         ELSE earlyTrigger(linked))
                             ELSE linked
             IN  IF i + 1 > Len(chain2) THEN after
                 ELSE setLoop(after, key, value, hashedKey, chain2, i + 1,
                              attached /\ ~trigger)

\* One iteration of the for loop of set(), pointer being the i-th node of
\* chain.  chain is the list the loop walks; it is the bucket
\* m.buckets[hashedKey] as long as attached is TRUE.  rehash() replaces the
\* bucket table by fresh nodes, so after it the loop goes on over the old
\* nodes, which no bucket reaches any more: attached becomes FALSE and the
\* writes through pointer no longer change the map.
setLoop(m, key, value, hashedKey, chain, i, attached) ==
    LET counted == [m EXCEPT !.listLen = m.listLen + 1]
    IN  IF chain[i].Key = key
        THEN IF attached
             THEN [counted EXCEPT !.buckets[hashedKey][i].Value = value]
             ELSE counted
        ELSE LET isTail   == i = Len(chain)
                 chain2   == IF isTail
                             THEN Append(chain, [Key |-> key, Value |-> value])
                             ELSE chain
                 linked   == IF isTail /\ attached
                             THEN [counted EXCEPT !.buckets[hashedKey] = chain2]
                             ELSE counted
                 trigger  == linked.listLen >= linked.rehashThreshold
                 after    == IF trigger
                             THEN rehash(IF isTail THEN linked
                                         ELSE earlyTrigger(linked))
                             ELSE linked
             IN  IF i + 1 > Len(chain2) THEN after
                 ELSE setLoop(after, key, value, hashedKey, chain2, i + 1,
                              attached /\ ~trigger)

\* Faulty set(): the new node always becomes the head of the chain.
setPrepends(m, key, value) ==
    LET hashedKey == hash(m, key)
    IN  resetListLen([m EXCEPT !.buckets[hashedKey] =
                         <<[Key |-> key, Value |-> value]>> \o @])

set(m, key, value) ==
    LET entered   == enterSet(m)
        hashedKey == hash(m, key)
    IN  IF m.buckets[hashedKey] = <<>>
        THEN resetListLen([entered EXCEPT !.buckets[hashedKey] =
                                        <<[Key |-> key, Value |-> value]>>])
        ELSE resetListLen(setLoop(entered, key, value, hashedKey,
                                  m.buckets[hashedKey], 1, TRUE))

\* ---------------------------------------------------------------- remove
\* Sequence s without its j-th element.
dropAt(s, j) == SubSeq(s, 1, j - 1) \o SubSeq(s, j + 1, Len(s))

RECURSIVE removeWalk(_, _, _)

\* Faulty loop of remove(): it stops at the last node without testing it.
removeWalkSkipsTail(chain, j, key) ==
    IF j >= Len(chain) THEN chain
    ELSE IF chain[j].Key = key THEN dropAt(chain, j)
    ELSE removeWalk(chain, j + 1, key)

\* remove(), the loop with prev/curr: curr is the j-th node of the chain.
removeWalk(chain, j, key) ==
    IF j > Len(chain) THEN chain
    ELSE IF chain[j].Key = key THEN dropAt(chain, j)
    ELSE removeWalk(chain, j + 1, key)

\* Faulty remove(): the head is unlinked without comparing its key.
removeHeadUnchecked(m, key) ==
    LET hashedKey == hash(m, key)
        chain     == m.buckets[hashedKey]
    IN  IF chain = <<>> THEN m
        ELSE [m EXCEPT !.buckets[hashedKey] = Tail(chain)]

remove(m, key) ==
    LET hashedKey == hash(m, key)
        chain     == m.buckets[hashedKey]
    IN  IF chain = <<>> THEN m
        ELSE IF chain[1].Key = key
             THEN [m EXCEPT !.buckets[hashedKey] = Tail(chain)]
        ELSE [m EXCEPT !.buckets[hashedKey] = removeWalk(chain, 2, key)]

\* ============================================== hashmap1: one entry a slot
\* hashmap1/simplest_hashmap.go: entries holds at most one KVPair per slot;
\* a slot is <<>> when the pointer is nil and <<node>> otherwise.  set()
\* calls rehash() when the slot of the key holds another key.
defaultCapacity1 == 4

\* The keys offered to hashmap1: those whose digest differs in absolute
\* value from the digest of every key before them.  Two keys with digests h
\* and -h share a slot under every capacity, and set() of the second one
\* doubles capacity without end.
Keys1 ==
    {k \in Keys : \A j \in Keys :
        j < k => hashIndex(Digest(j), 1024) # hashIndex(Digest(k), 1024)}

hash1(m, key) ==
    LET hashAfterModulo == Rem(Digest(key), m.capacity)
    IN  IF hashAfterModulo < 0 THEN -hashAfterModulo ELSE hashAfterModulo

makeEntries(n) == [i \in 0..(n - 1) |-> <<>>]

MakeHashMap1 ==
    [capacity |-> defaultCapacity1,
     entries  |-> makeEntries(defaultCapacity1)]

get1(m, key) ==
    LET hashedKey == hash1(m, key)
    IN  IF m.entries[hashedKey] # <<>> THEN m.entries[hashedKey][1].Value
        ELSE Nil

\* rehash(): make([]K, len(m.entries)) zero keys, then newKey.
newKeyspace1(m, newKey) ==
    Append([i \in 1..Cardinality(DOMAIN m.entries) |-> ZeroKey], newKey)

noCollidingHashes1(m, keyspace) ==
    LET allHashes == [i \in 1..Len(keyspace) |-> hash1(m, keyspace[i])]
    IN  Len(allHashes) < Len(keyspace)

RECURSIVE growCapacity1(_, _)
growCapacity1(m, keyspace) ==
    LET m1 == [m EXCEPT !.capacity = m.capacity * 2]
    IN  IF noCollidingHashes1(m1, keyspace) THEN growCapacity1(m1, keyspace)
        ELSE m1

RECURSIVE set1(_, _, _)
RECURSIVE rehash1(_, _)
RECURSIVE reinsert1(_, _, _, _)

\* rehash(), last loop: the entries of the old table, slot by slot.
reinsert1(m, oldEntries, b, n) ==
    IF b >= n THEN m
    ELSE IF oldEntries[b] # <<>>
         THEN reinsert1(set1(m, oldEntries[b][1].Key, oldEntries[b][1].Value),
                        oldEntries, b + 1, n)
    ELSE reinsert1(m, oldEntries, b + 1, n)

rehash1(m, newKey) ==
    LET grown      == growCapacity1(m, newKeyspace1(m, newKey))
        oldEntries == m.entries
        fresh      == [grown EXCEPT !.entries = makeEntries(grown.capacity)]
    IN  reinsert1(fresh, oldEntries, 0, Cardinality(DOMAIN oldEntries))

set1(m, key, value) ==
    LET hashedKey == hash1(m, key)
    IN  IF m.entries[hashedKey] = <<>>
        THEN [m EXCEPT !.entries[hashedKey] =
                           <<[Key |-> key, Value |-> value]>>]
        ELSE IF m.entries[hashedKey][1].Key = key
             THEN [m EXCEPT !.entries[hashedKey][1].Value = value]
        ELSE set1(rehash1(m, key), key, value)

remove1(m, key) == [m EXCEPT !.entries[hash1(m, key)] = <<>>]

\* ------------------------------------------------------------------ state
VARIABLES
    capacity,         \* HashMap.capacity
    buckets,          \* HashMap.buckets
    listLen,          \* HashMap.listLen
    rehashThreshold,  \* HashMap.rehashThreshold
    ref,              \* reference key -> value function run on the same calls
    lastOp,           \* the last public call, what it returned, and whether
                      \* the call before it was the same call on the same key
    obs,              \* what was observed inside the last public call
    hcall,            \* SpecHash: one call of hash: digest, capacity, index
    capacity1,        \* hashmap1: HashMap.capacity
    entries1,         \* hashmap1: HashMap.entries
    ref1,             \* hashmap1: reference key -> value function
    got1              \* hashmap1: the last get: its key and what it returned

vars1 == <<capacity1, entries1, ref1, got1>>

vars == <<capacity, buckets, listLen, rehashThreshold, ref, lastOp, obs, hcall,
          capacity1, entries1, ref1, got1>>

\* The HashMap object the variables hold.
Map ==
    [capacity        |-> capacity,
     buckets         |-> buckets,
     listLen         |-> listLen,
     rehashThreshold |-> rehashThreshold,
     obs             |-> NoObs]

\* The variables after the call left the object as m.
Store(m) ==
    /\ capacity' = m.capacity
    /\ buckets' = m.buckets
    /\ listLen' = m.listLen
    /\ rehashThreshold' = m.rehashThreshold

NoCall ==
    [op |-> "new", key |-> ZeroKey, value |-> Nil, result |-> 0,
     again |-> FALSE]

\* The value of the variables of a program that a specification does not
\* run: Spec runs hashmap2, Spec1 hashmap1, SpecHash the hash function.
NotRun == <<>>

NotRun1 ==
    /\ capacity1 = NotRun
    /\ entries1 = NotRun
    /\ ref1 = NotRun
    /\ got1 = NotRun

NotRun2 ==
    /\ capacity = NotRun
    /\ buckets = NotRun
    /\ listLen = NotRun
    /\ rehashThreshold = NotRun
    /\ ref = NotRun
    /\ lastOp = NotRun
    /\ obs = NotRun

\* hashmap1 after MakeHashMap().
Init1 ==
    /\ capacity1 = MakeHashMap1.capacity
    /\ entries1 = MakeHashMap1.entries
    /\ ref1 = [k \in Keys1 |-> Nil]
    /\ got1 = [key |-> ZeroKey, result |-> Nil]

\* hashmap2 after MakeHashMap().
Init2 ==
    /\ capacity = MakeHashMap.capacity
    /\ buckets = MakeHashMap.buckets
    /\ listLen = MakeHashMap.listLen
    /\ rehashThreshold = MakeHashMap.rehashThreshold
    /\ ref = [k \in Keys |-> Nil]
    /\ lastOp = NoCall
    /\ obs = NoObs

Init ==
    /\ Init2
    /\ NotRun1
    /\ hcall = NotRun

\* Number of doublings that lead from capacity c1 to capacity c2.
RECURSIVE doublings(_, _)
doublings(c1, c2) == IF c2 <= c1 THEN 0 ELSE 1 + doublings(c1 * 2, c2)

\* Position of key in the chain of its bucket, 0 when it is not stored.
RECURSIVE indexIn(_, _, _)
indexIn(chain, i, key) ==
    IF i > Len(chain) THEN 0
    ELSE IF chain[i].Key = key THEN i
    ELSE indexIn(chain, i + 1, key)

positionOf(m, key) == indexIn(m.buckets[hash(m, key)], 1, key)

\* The record of a call; again tells that the call before it was the same
\* operation on the same key.
Called(op, k, v, r) ==
    [op |-> op, key |-> k, value |-> v, result |-> r,
     again |-> (lastOp.op = op /\ lastOp.key = k)]

\* myHashmap.set(k, v); result records how often the call doubled capacity.
Set(k, v) ==
    \E m \in {set(Map, k, v)} :
        /\ Store(m)
        /\ obs' = m.obs
        /\ ref' = [ref EXCEPT ![k] = v]
        /\ lastOp' = Called("set", k, v, doublings(capacity, m.capacity))
        /\ UNCHANGED <<hcall, vars1>>

\* myHashmap.remove(k); result records where k was in its chain.
Remove(k) ==
    \E m \in {remove(Map, k)} :
        /\ Store(m)
        /\ ref' = [ref EXCEPT ![k] = Nil]
        /\ lastOp' = Called("remove", k, Nil, positionOf(Map, k))
        /\ obs' = NoObs
        /\ UNCHANGED <<hcall, vars1>>

\* Faulty get(): it counts the nodes of the bucket in listLen, as set() does.
GetCounts(k) ==
    /\ lastOp' = Called("get", k, Nil, get(Map, k))
    /\ obs' = NoObs
    /\ listLen' = Len(buckets[hash(Map, k)])
    /\ UNCHANGED <<capacity, buckets, rehashThreshold, ref, hcall, vars1>>

\* myHashmap.get(k); result records the value returned.
Get(k) ==
    /\ lastOp' = Called("get", k, Nil, get(Map, k))
    /\ obs' = NoObs
    /\ UNCHANGED <<capacity, buckets, listLen, rehashThreshold, ref, hcall,
                   vars1>>

Next ==
    \/ \E k \in Keys, v \in Values : Set(k, v)
    \/ \E k \in Keys : Remove(k)
    \/ \E k \in Keys : Get(k)

Spec == Init /\ [][Next]_vars

\* --------------------------------------------- SpecHash: hash() on its own
InitHash ==
    /\ NotRun2
    /\ NotRun1
    /\ hcall \in [h : (-MaxDigest)..MaxDigest, c : 1..MaxCap,
                  idx : {0}, done : {FALSE}]

HashCall ==
    /\ ~hcall.done
    /\ hcall' = [hcall EXCEPT !.idx = hashIndex(hcall.h, hcall.c),
                              !.done = TRUE]
    /\ UNCHANGED <<capacity, buckets, listLen, rehashThreshold, ref, lastOp,
                   obs, vars1>>

NextHash == HashCall

SpecHash == InitHash /\ [][NextHash]_vars

\* ------------------------------------------------------- Spec1: hashmap1
\* The hashmap1 object the variables hold.
Map1 == [capacity |-> capacity1, entries |-> entries1]

Store1(m) ==
    /\ capacity1' = m.capacity
    /\ entries1' = m.entries

vars2 == <<capacity, buckets, listLen, rehashThreshold, ref, lastOp, obs>>

Set1(k, v) ==
    \E m \in {set1(Map1, k, v)} :
        /\ Store1(m)
        /\ ref1' = [ref1 EXCEPT ![k] = v]
        /\ UNCHANGED <<got1, hcall, vars2>>

Remove1(k) ==
    \E m \in {remove1(Map1, k)} :
        /\ Store1(m)
        /\ ref1' = [ref1 EXCEPT ![k] = Nil]
        /\ UNCHANGED <<got1, hcall, vars2>>

Get1(k) ==
    /\ got1' = [key |-> k, result |-> get1(Map1, k)]
    /\ UNCHANGED <<capacity1, entries1, ref1, hcall, vars2>>

Next1 ==
    \/ \E k \in Keys1, v \in Values : Set1(k, v)
    \/ \E k \in Keys1 : Remove1(k)
    \/ \E k \in Keys1 : Get1(k)

InitMap1 ==
    /\ Init1
    /\ NotRun2
    /\ hcall = NotRun

Spec1 == InitMap1 /\ [][Next1]_vars

\* ================================================================ claims
\* Number of nodes stored across all chains.
entryCount(m) == Len(allElementsOf(m))

\* key is held by some node of some chain.
storedIn(m, key) ==
    \E b \in DOMAIN m.buckets :
        \E i \in 1..Len(m.buckets[b]) : m.buckets[b][i].Key = key

\* c is the default capacity doubled some number of times.
RECURSIVE isDoubled(_, _)
isDoubled(from, c) ==
    IF c < from THEN FALSE
    ELSE IF c = from THEN TRUE
    ELSE isDoubled(from * 2, c)

\* C1: after any sequence of set and remove calls, rehashes included,
\* get(k) returns for every key what the reference key -> value function
\* holds: the value of the last set(k, v) not followed by remove(k), and
\* nil when there is none.
C1_RefinesReference == \A k \in Keys : get(Map, k) = ref[k]

\* A set that doubled capacity twice (a rehash inside a rehash) left four
\* keys stored.
C1_Witness ==
    /\ lastOp.op = "set"
    /\ lastOp.result >= 2
    /\ Cardinality({k \in Keys : ref[k] # Nil}) >= 4

\* C2: right after set(k, v) has returned, get(k) returns v, whether k was
\* absent or present and whether or not the call rehashed.
C2_RoundTrip ==
    lastOp.op = "set" => get(Map, lastOp.key) = lastOp.value

\* set(k, v) has rehashed and get(k) returns v.
C2_Witness ==
    /\ lastOp.op = "set"
    /\ lastOp.result >= 1
    /\ get(Map, lastOp.key) = lastOp.value

\* C3: when set(k, v2) follows set(k, v1), get(k) returns v2 afterwards and
\* the number of entries stored is the same after the second set as after
\* the first.
C3_UpdateInPlace ==
    [][(/\ lastOp.op = "set"
        /\ lastOp'.op = "set"
        /\ lastOp'.key = lastOp.key)
       => /\ get(Map', lastOp'.key) = lastOp'.value
          /\ entryCount(Map') = entryCount(Map)]_vars

\* Two sets of the same key in a row, the second one with another value
\* and on a key that is the second node of its chain.
C3_Witness ==
    /\ lastOp.op = "set"
    /\ lastOp.again
    /\ positionOf(Map, lastOp.key) = 2
    /\ lastOp.value = 2
    /\ get(Map, lastOp.key) = 2

\* C4: after remove(k) has returned, get(k) returns nil and k is stored
\* nowhere, and the call unlinked no entry or exactly one.
C4_Removal ==
    [][lastOp'.op = "remove"
       => /\ get(Map', lastOp'.key) = Nil
          /\ ~storedIn(Map', lastOp'.key)
          /\ entryCount(Map') \in {entryCount(Map), entryCount(Map) - 1}
          /\ (storedIn(Map, lastOp'.key)
                => entryCount(Map') = entryCount(Map) - 1)]_vars

\* remove(k) has unlinked the last node of a chain of two.
C4_Witness ==
    /\ lastOp.op = "remove"
    /\ lastOp.result = 2
    /\ Len(buckets[hash(Map, lastOp.key)]) = 1
    /\ get(Map, lastOp.key) = Nil

\* C5: remove(k) of a key that is not stored leaves capacity, the bucket
\* table with every chain, the counter and the threshold as they were.
C5_NoOpRemoval ==
    [][(lastOp'.op = "remove" /\ ~storedIn(Map, lastOp'.key))
       => Map' = Map]_vars

\* remove(k) of a key that was not stored and hashes to a bucket that
\* holds other keys.
C5_Witness ==
    /\ lastOp.op = "remove"
    /\ lastOp.result = 0
    /\ ~lastOp.again
    /\ Len(buckets[hash(Map, lastOp.key)]) = 2

\* C6: between public calls every key is held by at most one node of the
\* bucket table.
C6_KeyUnique ==
    LET all == allElementsOf(Map)
    IN  \A i, j \in 1..Len(all) : all[i].Key = all[j].Key => i = j

\* A rehash inside a rehash has happened and four keys are stored.
C6_Witness ==
    /\ lastOp.op = "set"
    /\ lastOp.result >= 2
    /\ entryCount(Map) >= 4

\* C7: between public calls the bucket table has capacity slots and every
\* node of bucket i holds a key whose hash under the current capacity is i.
C7_Placement ==
    /\ DOMAIN buckets = 0..(capacity - 1)
    /\ \A b \in DOMAIN buckets :
          \A i \in 1..Len(buckets[b]) : hash(Map, buckets[b][i].Key) = b

\* After a rehash, a key is stored in a bucket that is not the one it had
\* under the default capacity.
C7_Witness ==
    /\ capacity > defaultCapacity
    /\ \E b \in DOMAIN buckets :
          \E i \in 1..Len(buckets[b]) :
              hashIndex(Digest(buckets[b][i].Key), defaultCapacity) # b

\* C8: capacity never decreases; it is the default capacity 4 doubled some
\* number of times, and get and remove leave it as it is.
C8_CapacityMonotone ==
    [][/\ capacity' >= capacity
       /\ isDoubled(defaultCapacity, capacity)
       /\ isDoubled(capacity, capacity')
       /\ (lastOp'.op \in {"get", "remove"} => capacity' = capacity)]_vars

\* capacity has been doubled twice and a remove has kept it.
C8_Witness ==
    /\ capacity = 4 * defaultCapacity
    /\ lastOp.op = "remove"

\* C9: for every positive capacity c and every signed digest h the index
\* hash computes lies in 0..c-1.
C9_HashRange ==
    hcall.done => (0 <= hcall.idx /\ hcall.idx < hcall.c)

\* hash has been called on a negative digest whose remainder is negative.
C9_Witness ==
    /\ hcall.done
    /\ hcall.h < 0
    /\ Rem(hcall.h, hcall.c) < 0
    /\ hcall.idx > 0

\* C10: get(k) leaves capacity, the bucket table with every chain, and the
\* counter unchanged, and a second get(k) right after get(k) returns the
\* same result.
C10_GetPure ==
    [][lastOp'.op = "get"
       => /\ Map' = Map
          /\ ((lastOp.op = "get" /\ lastOp.key = lastOp'.key)
                => lastOp'.result = lastOp.result)]_vars

\* get(k) was called twice in a row on a stored key in a chain of two.
C10_Witness ==
    /\ lastOp.op = "get"
    /\ lastOp.again
    /\ lastOp.result # Nil
    /\ positionOf(Map, lastOp.key) = 2

\* C11: hashmap1: get(k) returns nil for every key that is not stored
\* (never set, or removed since its last set), also when another stored key
\* occupies the slot k hashes to.
C11_AbsentIsNil ==
    \A k \in Keys1 : ref1[k] = Nil => get1(Map1, k) = Nil

\* C12: when a rehash has left its doubling loop, before it reinserts, the
\* keys of its snapshot hash to pairwise distinct indices under the capacity
\* it chose.
C12_CollisionFree ==
    (lastOp.op = "set" /\ obs.rehashes > 0) => ~obs.collide

\* C13: while a rehash reinserts its snapshot through set, none of those
\* sets triggers another rehash, and when the rehash returns every chain
\* holds at most one node.
C13_NoReentry ==
    (lastOp.op = "set" /\ obs.rehashes > 0)
        => (obs.maxDepth <= 1 /\ ~obs.long)

\* C14: listLen is zero on entry of every set invocation, those that rehash
\* makes while an outer set is suspended included, and zero again whenever a
\* set invocation returns.
C14_CounterZero ==
    lastOp.op = "set" => (obs.entryLen = 0 /\ listLen = 0)

\* C16: a set that returns without having rehashed leaves every bucket with
\* fewer than rehashThreshold nodes.
C16_ThresholdTrigger ==
    (lastOp.op = "set" /\ obs.rehashes = 0)
        => \A b \in DOMAIN buckets : Len(buckets[b]) < rehashThreshold

\* a and b are stored in the same chain of m, a nearer to the head.
before(m, a, b) ==
    /\ hash(m, a) = hash(m, b)
    /\ indexIn(m.buckets[hash(m, a)], 1, a) > 0
    /\ indexIn(m.buckets[hash(m, a)], 1, a)
           < indexIn(m.buckets[hash(m, b)], 1, b)

\* C15: set(k, v) of a key that is stored runs no rehash and leaves
\* capacity, the bucket table, the members and the order of every chain and
\* the value of every other key as they were; the node of k holds v.
C15_SetPresent ==
    [][(lastOp'.op = "set" /\ storedIn(Map, lastOp'.key))
       => /\ obs'.rehashes = 0
          /\ capacity' = capacity
          /\ DOMAIN buckets' = DOMAIN buckets
          /\ \A b \in DOMAIN buckets :
                /\ Len(buckets'[b]) = Len(buckets[b])
                /\ \A i \in 1..Len(buckets[b]) :
                      /\ buckets'[b][i].Key = buckets[b][i].Key
                      /\ buckets'[b][i].Value =
                            IF buckets[b][i].Key = lastOp'.key
                            THEN lastOp'.value
                            ELSE buckets[b][i].Value]_vars

\* set(k, v) has been called twice in a row on the head of a chain of two
\* in a table that has been rehashed.
C15_Witness ==
    /\ lastOp.op = "set"
    /\ lastOp.again
    /\ obs.rehashes = 0
    /\ capacity > defaultCapacity
    /\ positionOf(Map, lastOp.key) = 1
    /\ Len(buckets[hash(Map, lastOp.key)]) = 2

\* C17: the nodes of a chain stand in the order in which their keys were
\* last inserted as new keys.  As a step property: whenever a is before b
\* in a chain after a call, either a was before b in a chain before the
\* call, or the call was the set that inserted b as a new key.
C17_ChainOrder ==
    [][\A c \in DOMAIN buckets' :
          \A i, j \in 1..Len(buckets'[c]) :
             i < j
             => LET a == buckets'[c][i].Key
                    b == buckets'[c][j].Key
                IN  \/ before(Map, a, b)
                    \/ /\ lastOp'.op = "set"
                       /\ lastOp'.key = b
                       /\ ~storedIn(Map, b)]_vars

\* After a rehash inside a rehash a chain holds two keys, the one with the
\* larger identifier first.
C17_Witness ==
    /\ lastOp.op = "set"
    /\ obs.maxDepth >= 2
    /\ \E b \in DOMAIN buckets :
          /\ Len(buckets[b]) = 2
          /\ buckets[b][1].Key > buckets[b][2].Key

\* C18: between public calls every chain holds at most rehashThreshold
\* nodes, and no rehash is triggered at a node that has a successor.
C18_ChainBound ==
    /\ \A b \in DOMAIN buckets : Len(buckets[b]) <= rehashThreshold
    /\ ~obs.early

\* A set has rehashed, at the last node of its chain, and a chain of
\* rehashThreshold nodes is left.
C18_Witness ==
    /\ lastOp.op = "set"
    /\ obs.rehashes >= 1
    /\ ~obs.early
    /\ \E b \in DOMAIN buckets : Len(buckets[b]) = rehashThreshold

\* C19: every set call terminates: every rehash it starts returns, none of
\* them has to double capacity beyond MaxCapacity, and capacity stays below
\* MaxCapacity, although keys with digests h and -h are stored.
C19_SetTerminates ==
    /\ ~obs.overflow
    /\ obs.depth = 0
    /\ capacity < MaxCapacity

\* A set that started a rehash inside a rehash has returned, and two keys
\* with digests h and -h are stored.
C19_Witness ==
    /\ lastOp.op = "set"
    /\ obs.maxDepth >= 2
    /\ obs.depth = 0
    /\ \E a, b \in Keys :
          /\ Digest(a) = -Digest(b)
          /\ storedIn(Map, a)
          /\ storedIn(Map, b)

====
